---- MODULE Spec2Model ----
(***************************************************************************)
(* Model of linux/directory_bookmarks_plugin.cc: the bookmark registry     *)
(* kept in $XDG_CONFIG_HOME/directory_bookmarks/bookmarks.json and the     *)
(* file operations scoped to a bookmarked directory.                       *)
(*                                                                         *)
(* C strings that name files are sequences of characters, so that          *)
(* `bookmark_path + "/" + filename` is concatenation and the kernel's path *)
(* walk is an operator of the model.  FlValue and nlohmann::json values    *)
(* are tagged records [type, v].  The text of a file is a sequence of      *)
(* chunks, one per write(2) that reached the disk.                         *)
(***************************************************************************)
EXTENDS Integers, Sequences, FiniteSets, TLC

VARIABLES store, tree, last, procs, hist

vars == <<store, tree, last, procs, hist>>

-----------------------------------------------------------------------------
(* Bounds of the model.                                                    *)

\* write(2) calls the serialized registry document takes to reach the disk
NumChunks == 2
\* registry operations one process starts in the step-wise specifications
MaxOps == 2

-----------------------------------------------------------------------------
(* FlValue: the values of the platform channel.                            *)

FlNull == [type |-> "FL_VALUE_TYPE_NULL", v |-> <<>>]
FlBool(b) == [type |-> "FL_VALUE_TYPE_BOOL", v |-> b]
FlInt(n) == [type |-> "FL_VALUE_TYPE_INT", v |-> n]
FlFloat(x) == [type |-> "FL_VALUE_TYPE_FLOAT", v |-> x]
FlString(s) == [type |-> "FL_VALUE_TYPE_STRING", v |-> s]
FlUint8List(b) == [type |-> "FL_VALUE_TYPE_UINT8_LIST", v |-> b]
FlList(l) == [type |-> "FL_VALUE_TYPE_LIST", v |-> l]
FlMap(m) == [type |-> "FL_VALUE_TYPE_MAP", v |-> m]

\* An argument the caller left out: fl_value_lookup_string returns nullptr.
Nullptr == [type |-> "nullptr", v |-> <<>>]

\* A double is "inf", "-inf", "nan" or a finite value, kept by its lexeme.
NonFinite == {"inf", "-inf", "nan"}

(* nlohmann::json values.                                                  *)

JNull == [type |-> "null", v |-> <<>>]
JBool(b) == [type |-> "boolean", v |-> b]
JInt(n) == [type |-> "number_integer", v |-> n]
JFloat(x) == [type |-> "number_float", v |-> x]
JString(s) == [type |-> "string", v |-> s]
JArray(l) == [type |-> "array", v |-> l]
JObject(m) == [type |-> "object", v |-> m]

EmptyMap == [k \in {} |-> JNull]

is_object(j) == j.type = "object"
is_string(j) == j.type = "string"
\* json::contains(key): false on anything that is not an object.
contains(j, key) == is_object(j) /\ key \in DOMAIN j.v
\* What operator[] leaves in an object after `j[key] = val`.
Assign(m, key, val) == [k \in DOMAIN m \cup {key} |-> IF k = key THEN val ELSE m[k]]
Erase(m, key) == [k \in DOMAIN m \ {key} |-> m[k]]

-----------------------------------------------------------------------------
(* Conversions between the two.                                            *)

\* One case of the switch in fl_value_to_json.
fl_scalar_to_json(val) ==
  CASE val.type = "FL_VALUE_TYPE_STRING" -> JString(val.v)
    [] val.type = "FL_VALUE_TYPE_INT" -> JInt(val.v)
    [] val.type = "FL_VALUE_TYPE_FLOAT" -> JFloat(val.v)
    [] val.type = "FL_VALUE_TYPE_BOOL" -> JBool(val.v)
    [] OTHER -> JNull

\* Keys that are not strings are skipped; a value that is no scalar is null.
fl_value_to_json(value) ==
  IF value.type # "FL_VALUE_TYPE_MAP"
  THEN JObject(EmptyMap)
  ELSE LET keys == {k \in DOMAIN value.v : k.type = "FL_VALUE_TYPE_STRING"}
       IN JObject([s \in {k.v : k \in keys} |->
                     fl_scalar_to_json(value.v[FlString(s)])])

\* Members that are none of string, integer, float, boolean are left out.
json_to_fl_value(j) ==
  IF ~is_object(j)
  THEN FlMap(EmptyMap)
  ELSE LET kept == {k \in DOMAIN j.v :
                      j.v[k].type \in {"string", "number_integer",
                                       "number_float", "boolean"}}
       IN FlMap([fk \in {FlString(k) : k \in kept} |->
                   LET val == j.v[fk.v]
                   IN CASE val.type = "string" -> FlString(val.v)
                        [] val.type = "number_integer" -> FlInt(val.v)
                        [] val.type = "number_float" -> FlFloat(val.v)
                        [] OTHER -> FlBool(val.v)])

\* The instants the clock is read at: seconds since the epoch.
Times == {0, 86399}

DigitChar(n) ==
  CASE n = 0 -> "0" [] n = 1 -> "1" [] n = 2 -> "2" [] n = 3 -> "3"
    [] n = 4 -> "4" [] n = 5 -> "5" [] n = 6 -> "6" [] n = 7 -> "7"
    [] n = 8 -> "8" [] OTHER -> "9"

Pad2(n) == <<DigitChar((n \div 10) % 10), DigitChar(n % 10)>>

\* strftime("%Y-%m-%dT%H:%M:%SZ", gmtime(&now)), for instants of January 1970.
get_iso8601_timestamp(now) ==
  LET day == 1 + (now \div 86400)
      hh == (now \div 3600) % 24
      mm == (now \div 60) % 60
      ss == now % 60
  IN <<"1", "9", "7", "0", "-", "0", "1", "-">> \o Pad2(day) \o <<"T">>
       \o Pad2(hh) \o <<":">> \o Pad2(mm) \o <<":">> \o Pad2(ss) \o <<"Z">>

-----------------------------------------------------------------------------
(* The registry document on disk.                                          *)

\* json::dump writes a double that is not finite as the literal null; every
\* other value is written so that json::parse reads it back.
RECURSIVE Serialized(_)
Serialized(j) ==
  CASE j.type = "object" -> JObject([k \in DOMAIN j.v |-> Serialized(j.v[k])])
    [] j.type = "number_float" -> IF j.v \in NonFinite THEN JNull ELSE j
    [] OTHER -> j

\* The text data.dump(2) produces, cut into the chunks it is written in.
Dump(j) == [i \in 1..NumChunks |-> [of |-> Serialized(j), i |-> i]]

\* A chunk of zero bytes: what a write beyond the end of a file leaves before it.
Hole == [of |-> JNull, i |-> 0]

\* json::parse: the text of one whole document, or a parse_error. A text
\* cut short, with a hole, or with chunks of two documents is taken not to
\* parse.
Parse(text) ==
  IF /\ Len(text) = NumChunks
     /\ \A i \in 1..NumChunks : text[i].i = i /\ text[i].of = text[1].of
  THEN [ok |-> TRUE, val |-> text[1].of]
  ELSE [ok |-> FALSE, val |-> JNull]

NoFile == [present |-> FALSE, readable |-> TRUE, text |-> <<>>]
File(text) == [present |-> TRUE, readable |-> TRUE, text |-> text]

DefaultDoc == JObject([version |-> JString("2.0"), bookmarks |-> JObject(EmptyMap)])

\* get_bookmarks_config_path and fs::exists run outside the try block: an
\* error of create_directories or of stat (other than "not found") leaves
\* load_bookmarks as a filesystem_error.
load_bookmarks_of(s) ==
  IF ~s.dirOk
  THEN [threw |-> TRUE, data |-> DefaultDoc]
  ELSE IF ~s.doc.present
  THEN [threw |-> FALSE, data |-> DefaultDoc]
  ELSE IF ~s.doc.readable
  THEN [threw |-> FALSE, data |-> DefaultDoc]
  ELSE LET p == Parse(s.doc.text)
       IN IF ~p.ok
          THEN [threw |-> FALSE, data |-> DefaultDoc]
          ELSE IF ~contains(p.val, "bookmarks")
                  \/ ~is_object(p.val.v["bookmarks"])
          THEN [threw |-> FALSE, data |-> DefaultDoc]
          ELSE [threw |-> FALSE, data |-> p.val]

load_bookmarks == load_bookmarks_of(store)

\* The outcome of the I/O of one save: none of its steps fails, or the open
\* of the temporary file fails, or the stream goes bad after `at` chunks
\* were written, or the rename fails.
IoOk == [fail |-> "none", at |-> 0]
IoFaults ==
  {[fail |-> "open", at |-> 0], [fail |-> "rename", at |-> 0]}
    \cup {[fail |-> "write", at |-> k] : k \in 0..(NumChunks - 1)}

\* std::ofstream out(temp_path): creates the temporary file or truncates it.
OpenTemp(s) == [s EXCEPT !.tmp = File(<<>>)]

\* The text of a file after `chunk` is written at offset `off` (in chunks).
WriteAt(text, off, chunk) ==
  [i \in 1..(IF Len(text) > off + 1 THEN Len(text) ELSE off + 1) |->
     IF i = off + 1 THEN chunk
     ELSE IF i <= Len(text) THEN text[i] ELSE Hole]

\* One write(2) through a descriptor: `fd` names where the file it was
\* opened on is now ("tmp", "doc" after a rename moved it there, or
\* "orphan" once no name leads to it).
WriteChunk(s, fd, off, chunk) ==
  CASE fd = "tmp" -> [s EXCEPT !.tmp.text = WriteAt(@, off, chunk)]
    [] fd = "doc" -> [s EXCEPT !.doc.text = WriteAt(@, off, chunk)]
    [] OTHER -> s

RECURSIVE WriteChunks(_, _, _, _, _)
\* Chunks off+1 .. upto of `text`, written one after the other.
WriteChunks(s, fd, text, off, upto) ==
  IF off >= upto
  THEN s
  ELSE WriteChunks(WriteChunk(s, fd, off, text[off + 1]), fd, text, off + 1, upto)

\* A rename that takes the temporary file away and leaves bookmarks.json.
RenameTemp_leaves_doc(s) == [s EXCEPT !.tmp = NoFile]

\* fs::rename(temp_path, config_path)
RenameTemp(s) == [s EXCEPT !.doc = s.tmp, !.tmp = NoFile]

\* fs::remove(temp_path) of the catch block
RemoveTemp(s) == [s EXCEPT !.tmp = NoFile]

\* A save_bookmarks that writes bookmarks.json in place.
SaveTargetInPlace == "doc"

\* Where save_bookmarks puts the document: the temporary file, renamed.
SaveTarget == "tmp"

\* save_bookmarks(data) as one call, with the outcome `io` of its I/O.  A
\* stream that goes bad throws nothing: the rename follows all the same.
save_bookmarks_of(s, data, io) ==
  IF ~s.dirOk
  THEN [threw |-> TRUE, ret |-> FALSE, store |-> s]
  ELSE IF io.fail = "open"
  THEN [threw |-> FALSE, ret |-> FALSE, store |-> s]
  ELSE LET opened == IF SaveTarget = "tmp" THEN OpenTemp(s)
                     ELSE [s EXCEPT !.doc = File(<<>>)]
           upto == IF io.fail = "write" THEN io.at ELSE NumChunks
           written == WriteChunks(opened, SaveTarget, Dump(data), 0, upto)
       IN IF io.fail = "rename"
          THEN [threw |-> FALSE, ret |-> FALSE, store |-> RemoveTemp(written)]
          ELSE [threw |-> FALSE, ret |-> TRUE,
                store |-> IF SaveTarget = "tmp" THEN RenameTemp(written) ELSE written]

-----------------------------------------------------------------------------
(* The file system the bookmarks point into.                               *)

\* Path strings
D1 == <<"/", "d">>
D2 == <<"/", "e">>
D1A == <<"/", "d", "/", "a">>
Missing == <<"/", "x">>
Slash == <<"/">>

\* File names
NameA == <<"a">>
NameHidden == <<".", "h">>
NameSub == <<"s">>
NameUp == <<".", ".", "/", "e", "/", "a">>

\* g_get_user_config_dir() + "/directory_bookmarks", a directory like any
\* other, and the name bookmarks.json
config_dir == <<"/", "c">>
NameDoc == <<"j">>

\* config_dir + "/bookmarks.json"
config_path == config_dir \o Slash \o NameDoc

\* A node is named by the segments that lead to it from the root.
NodeOf(dir, name) == <<dir, name>>

\* The node of bookmarks.json, where the tree has the configuration directory.
DocNode == NodeOf(<<"c">>, NameDoc)
Dirs == {<<"d">>, <<"e">>}
LeafNames == {NameA, NameHidden, NameSub}
Nodes == {<<d>> : d \in Dirs} \cup {NodeOf(d, n) : d \in Dirs, n \in LeafNames}

NoNode == <<<<>>>>
None == [kind |-> "none", w |-> FALSE, data |-> <<>>]
Directory(w) == [kind |-> "dir", w |-> w, data |-> <<>>]
\* A write that leaves the file without the bytes.
Regular_without_bytes(data) == [kind |-> "file", w |-> TRUE, data |-> <<>>]

\* A regular file holding `data`.
Regular(data) == [kind |-> "file", w |-> TRUE, data |-> data]

RECURSIVE Split(_, _)
\* The segments of a path string; `cur` is the segment being read.
Split(chars, cur) ==
  IF chars = <<>>
  THEN IF cur = <<>> THEN <<>> ELSE <<cur>>
  ELSE IF Head(chars) = "/"
  THEN (IF cur = <<>> THEN <<>> ELSE <<cur>>) \o Split(Tail(chars), <<>>)
  ELSE Split(Tail(chars), Append(cur, Head(chars)))

KindOf(t, node) ==
  IF node = <<>> THEN "dir"
  ELSE IF node \in DOMAIN t THEN t[node].kind ELSE "none"

RECURSIVE Walk(_, _, _)
\* The kernel's walk from directory `cur` along `segs`: the node the path
\* names (which need not exist), or NoNode when a segment on the way is
\* not a directory.
Walk(t, cur, segs) ==
  IF KindOf(t, cur) # "dir"
  THEN NoNode
  ELSE IF segs = <<>>
  THEN cur
  ELSE LET seg == Head(segs)
       IN IF seg = <<".">>
          THEN Walk(t, cur, Tail(segs))
          ELSE IF seg = <<".", ".">>
          THEN Walk(t, IF cur = <<>> THEN cur ELSE SubSeq(cur, 1, Len(cur) - 1),
                    Tail(segs))
          ELSE IF Tail(segs) = <<>>
          THEN Append(cur, seg)
          ELSE Walk(t, Append(cur, seg), Tail(segs))

\* The empty string names nothing (ENOENT); every path here is absolute.
Resolve(t, chars) == IF chars = <<>> THEN NoNode ELSE Walk(t, <<>>, Split(chars, <<>>))

\* A file name longer than the file system takes: stat of a path with it
\* fails with ENAMETOOLONG, which is not "no such file".
NameLong == <<"l", "o", "n", "g">>

\* fs::exists(p) and fs::is_regular_file(p) throw a filesystem_error when
\* stat fails with anything but ENOENT or ENOTDIR.
StatFails(chars) ==
  \E i \in DOMAIN Split(chars, <<>>) : Split(chars, <<>>)[i] = NameLong

\* stat(path, &st) == 0 && S_ISDIR(st.st_mode)
IsDirectory(t, chars) == KindOf(t, Resolve(t, chars)) = "dir"

\* fs::exists(p) && fs::is_regular_file(p)
IsRegularFile(t, chars) == KindOf(t, Resolve(t, chars)) = "file"

\* access(path, W_OK) == 0
Writable(t, chars) ==
  LET node == Resolve(t, chars)
  IN node = <<>> \/ (node \in DOMAIN t /\ t[node].kind # "none" /\ t[node].w)


-----------------------------------------------------------------------------
(* The method handlers, each a function of the state it reads.             *)

Success(value) == [kind |-> "success", code |-> "", value |-> value]
Error(code) == [kind |-> "error", code |-> code, value |-> FlNull]
\* An exception no handler catches leaves the method call: no response.
Uncaught(what) == [kind |-> "uncaught", code |-> what, value |-> FlNull]

NoSave == [called |-> FALSE, ret |-> FALSE, data |-> JNull]
Saved(sv, data) == [called |-> TRUE, ret |-> sv.ret, data |-> data]

\* What a handler leaves: its response, the registry files, the file
\* system, and the save it made.
Result(resp, s, t, save) == [resp |-> resp, store |-> s, tree |-> t, save |-> save]

IsStringArg(value) == value.type = "FL_VALUE_TYPE_STRING"

Bookmarks(data) == data.v["bookmarks"]

\* data["bookmarks"][identifier] = bookmark
WithBookmark(data, identifier, bookmark) ==
  JObject(Assign(data.v, "bookmarks",
                 JObject(Assign(Bookmarks(data).v, identifier, bookmark))))

\* A delete_bookmark that leaves the entry in the document it saves.
WithoutBookmark_keeps(data, identifier) == data

\* data["bookmarks"].erase(identifier)
WithoutBookmark(data, identifier) ==
  JObject(Assign(data.v, "bookmarks", JObject(Erase(Bookmarks(data).v, identifier))))

\* bookmark[key].get<std::string>() throws a type_error unless the member
\* is there and is a string.
HasString(bookmark, key) == contains(bookmark, key) /\ is_string(bookmark.v[key])

\* A create_bookmark that does not stat the path.
create_bookmark_check_no_stat(t, args) ==
  IF ~IsStringArg(args.identifier) THEN "INVALID_ARGUMENT"
  ELSE IF ~IsStringArg(args.path) THEN "INVALID_ARGUMENT"
  ELSE ""

\* The checks create_bookmark makes before it touches the registry, in the
\* order it makes them: "" when all pass, else the error code.
create_bookmark_check(t, args) ==
  IF ~IsStringArg(args.identifier) THEN "INVALID_ARGUMENT"
  ELSE IF ~IsStringArg(args.path) THEN "INVALID_ARGUMENT"
  ELSE IF ~IsDirectory(t, args.path.v) THEN "DIRECTORY_NOT_FOUND"
  ELSE ""

\* The entry create_bookmark builds.
NewBookmark(args, now) ==
  JObject([id |-> JString(args.identifier.v),
           path |-> JString(args.path.v),
           createdAt |-> JString(get_iso8601_timestamp(now)),
           metadata |-> IF args.metadata.type = "FL_VALUE_TYPE_MAP"
                        THEN fl_value_to_json(args.metadata)
                        ELSE JObject(EmptyMap)])

\* A create_bookmark that overwrites.
already_exists_never(data, identifier) == FALSE

\* data["bookmarks"].contains(identifier)
already_exists(data, identifier) == contains(Bookmarks(data), identifier)

create_bookmark(s, t, args, now, io) ==
  IF create_bookmark_check(t, args) # ""
  THEN Result(Error(create_bookmark_check(t, args)), s, t, NoSave)
  ELSE LET ld == load_bookmarks_of(s)
       IN IF ld.threw
          THEN Result(Uncaught("filesystem_error"), s, t, NoSave)
          ELSE IF already_exists(ld.data, args.identifier.v)
          THEN Result(Error("BOOKMARK_ALREADY_EXISTS"), s, t, NoSave)
          ELSE LET data == WithBookmark(ld.data, args.identifier.v, NewBookmark(args, now))
                   sv == save_bookmarks_of(s, data, io)
               IN IF ~sv.ret
                  THEN Result(Error("WRITE_ERROR"), sv.store, t, Saved(sv, data))
                  ELSE Result(Success(FlString(args.identifier.v)), sv.store, t,
                              Saved(sv, data))

\* The map list_bookmarks and get_bookmark build for one entry.
BookmarkMap(bookmark) ==
  FlMap([k \in {FlString("identifier"), FlString("path"),
                FlString("createdAt"), FlString("metadata")} |->
           CASE k.v = "identifier" -> FlString(bookmark.v["id"].v)
             [] k.v = "path" -> FlString(bookmark.v["path"].v)
             [] k.v = "createdAt" -> FlString(bookmark.v["createdAt"].v)
             [] OTHER -> IF contains(bookmark, "metadata")
                            /\ is_object(bookmark.v["metadata"])
                         THEN json_to_fl_value(bookmark.v["metadata"])
                         ELSE FlMap(EmptyMap)])

Convertible(bookmark) ==
  HasString(bookmark, "id") /\ HasString(bookmark, "path")
    /\ HasString(bookmark, "createdAt")

\* Every identifier the model uses, in the order std::map iterates them.
IdOrder == <<"", "a", "b">>

\* A list_bookmarks that leaves out the entries whose directory is gone.
list_bookmarks_live_only(s, t) ==
  LET ld == load_bookmarks_of(s)
      ids == SelectSeq(IdOrder,
                       LAMBDA i : /\ contains(Bookmarks(ld.data), i)
                                  /\ IsDirectory(t, Bookmarks(ld.data).v[i].v["path"].v))
  IN Result(Success(FlList([i \in 1..Len(ids) |->
                              BookmarkMap(Bookmarks(ld.data).v[ids[i]])])),
            s, t, NoSave)

list_bookmarks(s, t) ==
  LET ld == load_bookmarks_of(s)
      ids == SelectSeq(IdOrder, LAMBDA i : contains(Bookmarks(ld.data), i))
  IN IF ld.threw
     THEN Result(Uncaught("filesystem_error"), s, t, NoSave)
     ELSE IF \E i \in 1..Len(ids) : ~Convertible(Bookmarks(ld.data).v[ids[i]])
     THEN Result(Uncaught("type_error"), s, t, NoSave)
     ELSE Result(Success(FlList([i \in 1..Len(ids) |->
                                   BookmarkMap(Bookmarks(ld.data).v[ids[i]])])),
                 s, t, NoSave)

get_bookmark(s, t, args) ==
  IF ~IsStringArg(args.identifier)
  THEN Result(Error("INVALID_ARGUMENT"), s, t, NoSave)
  ELSE LET ld == load_bookmarks_of(s)
       IN IF ld.threw
          THEN Result(Uncaught("filesystem_error"), s, t, NoSave)
          ELSE IF ~contains(Bookmarks(ld.data), args.identifier.v)
          THEN Result(Success(FlNull), s, t, NoSave)
          ELSE IF ~Convertible(Bookmarks(ld.data).v[args.identifier.v])
          THEN Result(Uncaught("type_error"), s, t, NoSave)
          ELSE Result(Success(BookmarkMap(Bookmarks(ld.data).v[args.identifier.v])),
                      s, t, NoSave)

bookmark_exists(s, t, args) ==
  IF ~IsStringArg(args.identifier)
  THEN Result(Error("INVALID_ARGUMENT"), s, t, NoSave)
  ELSE LET ld == load_bookmarks_of(s)
       IN IF ld.threw
          THEN Result(Uncaught("filesystem_error"), s, t, NoSave)
          ELSE Result(Success(FlBool(contains(Bookmarks(ld.data), args.identifier.v))),
                      s, t, NoSave)

delete_bookmark(s, t, args, io) ==
  IF ~IsStringArg(args.identifier)
  THEN Result(Error("INVALID_ARGUMENT"), s, t, NoSave)
  ELSE LET ld == load_bookmarks_of(s)
       IN IF ld.threw
          THEN Result(Uncaught("filesystem_error"), s, t, NoSave)
          ELSE IF ~contains(Bookmarks(ld.data), args.identifier.v)
          THEN Result(Success(FlBool(FALSE)), s, t, NoSave)
          ELSE LET data == WithoutBookmark(ld.data, args.identifier.v)
                   sv == save_bookmarks_of(s, data, io)
               IN Result(Success(FlBool(sv.ret)), sv.store, t, Saved(sv, data))

\* An update that stamps the entry anew.
WithMetadata_restamped(data, identifier, metadata) ==
  WithBookmark(data, identifier,
               JObject(Assign(Assign(Bookmarks(data).v[identifier].v,
                                     "metadata", metadata),
                              "createdAt", JString(get_iso8601_timestamp(0)))))

\* data["bookmarks"][identifier]["metadata"] = metadata
WithMetadata(data, identifier, metadata) ==
  LET bookmark == Bookmarks(data).v[identifier]
  IN WithBookmark(data, identifier,
                  JObject(Assign(IF is_object(bookmark) THEN bookmark.v ELSE EmptyMap,
                                 "metadata", metadata)))

update_bookmark_metadata(s, t, args, io) ==
  IF ~IsStringArg(args.identifier)
  THEN Result(Error("INVALID_ARGUMENT"), s, t, NoSave)
  ELSE IF args.metadata.type # "FL_VALUE_TYPE_MAP"
  THEN Result(Error("INVALID_ARGUMENT"), s, t, NoSave)
  ELSE LET ld == load_bookmarks_of(s)
       IN IF ld.threw
          THEN Result(Uncaught("filesystem_error"), s, t, NoSave)
          ELSE IF ~contains(Bookmarks(ld.data), args.identifier.v)
          THEN Result(Success(FlBool(FALSE)), s, t, NoSave)
          ELSE IF Bookmarks(ld.data).v[args.identifier.v].type \notin {"object", "null"}
          THEN Result(Uncaught("type_error"), s, t, NoSave)
          ELSE LET data == WithMetadata(ld.data, args.identifier.v,
                                        fl_value_to_json(args.metadata))
                   sv == save_bookmarks_of(s, data, io)
               IN Result(Success(FlBool(sv.ret)), sv.store, t, Saved(sv, data))


-----------------------------------------------------------------------------
(* The file operations.                                                    *)

\* A get_bookmarked_path that does not stat the stored path.
stat_is_directory_skipped(t, out_path) == TRUE

\* stat(out_path.c_str(), &st) == 0 && S_ISDIR(st.st_mode)
stat_is_directory(t, out_path) == IsDirectory(t, out_path)

\* get_bookmarked_path: whether the bookmark resolves, and out_path.
get_bookmarked_path(s, t, identifier) ==
  LET ld == load_bookmarks_of(s)
  IN IF ld.threw
     THEN [threw |-> "filesystem_error", ok |-> FALSE, path |-> <<>>]
     ELSE IF ~contains(Bookmarks(ld.data), identifier)
     THEN [threw |-> "", ok |-> FALSE, path |-> <<>>]
     ELSE IF ~HasString(Bookmarks(ld.data).v[identifier], "path")
     THEN [threw |-> "type_error", ok |-> FALSE, path |-> <<>>]
     ELSE LET out_path == Bookmarks(ld.data).v[identifier].v["path"].v
          IN [threw |-> "", ok |-> stat_is_directory(t, out_path), path |-> out_path]

BookmarkNotFound == Error("BOOKMARK_NOT_FOUND")

\* bookmark_path + "/" + filename
FilePath(bookmark_path, filename) == bookmark_path \o Slash \o filename

Parent(node) == SubSeq(node, 1, Len(node) - 1)

\* Whether entries may be added to or removed from the directory `node`.
DirWritable(t, node) == node = <<>> \/ (node \in DOMAIN t /\ t[node].w)

\* Whether open(file_path, O_WRONLY | O_CREAT | O_TRUNC) succeeds.
CanOpenForWrite(t, chars) ==
  LET node == Resolve(t, chars)
  IN /\ node \in DOMAIN t
     /\ t[node].kind # "dir"
     /\ t[node].kind = "none" => DirWritable(t, Parent(node))

\* Whether unlink(file_path) succeeds on an existing file.
CanRemove(t, chars) == DirWritable(t, Parent(Resolve(t, chars)))

\* The outcome of the I/O on a file of the bookmarked directory.
FileIoOk == "ok"
FileIoFaults == {"open_fails", "write_fails", "io_error"}

save_file(s, t, args, fio) ==
  IF ~IsStringArg(args.identifier) \/ ~IsStringArg(args.fileName)
     \/ args.data.type # "FL_VALUE_TYPE_UINT8_LIST"
  THEN Result(Error("INVALID_ARGUMENT"), s, t, NoSave)
  ELSE LET bp == get_bookmarked_path(s, t, args.identifier.v)
           file_path == FilePath(bp.path, args.fileName.v)
       IN IF bp.threw # ""
          THEN Result(Uncaught(bp.threw), s, t, NoSave)
          ELSE IF ~bp.ok
          THEN Result(BookmarkNotFound, s, t, NoSave)
          ELSE IF ~Writable(t, bp.path)
          THEN Result(Error("PERMISSION_DENIED"), s, t, NoSave)
          ELSE IF fio = "open_fails" \/ ~CanOpenForWrite(t, file_path)
          THEN Result(Error("PERMISSION_DENIED"), s, t, NoSave)
          ELSE IF fio = "write_fails"
          THEN Result(Success(FlBool(TRUE)), s,
                      [t EXCEPT ![Resolve(t, file_path)] = Regular(<<>>)], NoSave)
          ELSE Result(Success(FlBool(TRUE)), s,
                      [t EXCEPT ![Resolve(t, file_path)] = Regular(args.data.v)], NoSave)

read_file(s, t, args, fio) ==
  IF ~IsStringArg(args.identifier) \/ ~IsStringArg(args.fileName)
  THEN Result(Error("INVALID_ARGUMENT"), s, t, NoSave)
  ELSE LET bp == get_bookmarked_path(s, t, args.identifier.v)
           file_path == FilePath(bp.path, args.fileName.v)
       IN IF bp.threw # ""
          THEN Result(Uncaught(bp.threw), s, t, NoSave)
          ELSE IF ~bp.ok
          THEN Result(BookmarkNotFound, s, t, NoSave)
          ELSE IF StatFails(file_path)
          THEN Result(Uncaught("filesystem_error"), s, t, NoSave)
          ELSE IF ~IsRegularFile(t, file_path)
          THEN Result(Success(FlNull), s, t, NoSave)
          ELSE IF fio = "open_fails"
          THEN Result(Error("PERMISSION_DENIED"), s, t, NoSave)
          ELSE Result(Success(FlUint8List(t[Resolve(t, file_path)].data)), s, t, NoSave)

\* The entries of a directory.
Entries(t, dir) ==
  {n \in DOMAIN t : Len(n) = Len(dir) + 1 /\ Parent(n) = dir /\ t[n].kind # "none"}

\* The orders readdir may return the names of a directory in.
ReaddirOrders ==
  {o \in [1..Cardinality(LeafNames) -> LeafNames] :
     \A i, j \in DOMAIN o : i # j => o[i] # o[j]}

\* A list_files that appends every entry of the directory.
Listed_every_entry(t, dir, filename) == Append(dir, filename) \in Entries(t, dir)

\* Whether list_files appends the entry called `filename`.
Listed(t, dir, filename) ==
  /\ Append(dir, filename) \in Entries(t, dir)
  /\ t[Append(dir, filename)].kind = "file"
  /\ filename # <<>> /\ filename[1] # "."

list_files(s, t, args, order, fio) ==
  IF ~IsStringArg(args.identifier)
  THEN Result(Error("INVALID_ARGUMENT"), s, t, NoSave)
  ELSE LET bp == get_bookmarked_path(s, t, args.identifier.v)
           dir == Resolve(t, bp.path)
       IN IF bp.threw # ""
          THEN Result(Uncaught(bp.threw), s, t, NoSave)
          ELSE IF ~bp.ok
          THEN Result(BookmarkNotFound, s, t, NoSave)
          ELSE IF fio = "io_error"
          THEN Result(Error("READ_ERROR"), s, t, NoSave)
          ELSE Result(Success(FlList(
                        [i \in 1..Len(SelectSeq(order, LAMBDA n : Listed(t, dir, n))) |->
                           FlString(SelectSeq(order, LAMBDA n : Listed(t, dir, n))[i])])),
                      s, t, NoSave)

delete_file(s, t, args, fio) ==
  IF ~IsStringArg(args.identifier) \/ ~IsStringArg(args.fileName)
  THEN Result(Error("INVALID_ARGUMENT"), s, t, NoSave)
  ELSE LET bp == get_bookmarked_path(s, t, args.identifier.v)
           file_path == FilePath(bp.path, args.fileName.v)
       IN IF bp.threw # ""
          THEN Result(Uncaught(bp.threw), s, t, NoSave)
          ELSE IF ~bp.ok
          THEN Result(BookmarkNotFound, s, t, NoSave)
          ELSE IF ~Writable(t, bp.path)
          THEN Result(Error("PERMISSION_DENIED"), s, t, NoSave)
          ELSE IF StatFails(file_path)
          THEN Result(Uncaught("filesystem_error"), s, t, NoSave)
          ELSE IF ~IsRegularFile(t, file_path)
          THEN Result(Success(FlBool(FALSE)), s, t, NoSave)
          ELSE IF fio = "io_error" \/ ~CanRemove(t, file_path)
          THEN Result(Error("DELETE_ERROR"), s, t, NoSave)
          ELSE Result(Success(FlBool(TRUE)), s,
                      [t EXCEPT ![Resolve(t, file_path)] = None], NoSave)

file_exists(s, t, args) ==
  IF ~IsStringArg(args.identifier) \/ ~IsStringArg(args.fileName)
  THEN Result(Error("INVALID_ARGUMENT"), s, t, NoSave)
  ELSE LET bp == get_bookmarked_path(s, t, args.identifier.v)
       IN IF bp.threw # ""
          THEN Result(Uncaught(bp.threw), s, t, NoSave)
          ELSE IF ~bp.ok
          THEN Result(Success(FlBool(FALSE)), s, t, NoSave)
          ELSE IF StatFails(FilePath(bp.path, args.fileName.v))
          THEN Result(Uncaught("filesystem_error"), s, t, NoSave)
          ELSE Result(Success(FlBool(IsRegularFile(t, FilePath(bp.path, args.fileName.v)))),
                      s, t, NoSave)

has_write_permission(s, t, args) ==
  IF ~IsStringArg(args.identifier)
  THEN Result(Error("INVALID_ARGUMENT"), s, t, NoSave)
  ELSE LET bp == get_bookmarked_path(s, t, args.identifier.v)
       IN IF bp.threw # ""
          THEN Result(Uncaught(bp.threw), s, t, NoSave)
          ELSE IF ~bp.ok
          THEN Result(Success(FlBool(FALSE)), s, t, NoSave)
          ELSE Result(Success(FlBool(Writable(t, bp.path))), s, t, NoSave)

request_write_permission(s, t, args) == has_write_permission(s, t, args)


-----------------------------------------------------------------------------
(* State.                                                                  *)
(*   store  the registry files: doc (bookmarks.json), tmp                  *)
(*          (bookmarks.json.tmp) and dirOk, whether the configuration      *)
(*          directory can be created and searched                          *)
(*   tree   the file system the bookmarks point into                       *)
(*   last   the last method call: its arguments, the state it started      *)
(*          from, its response and the save it made                        *)
(*   procs  the processes of the step-wise specifications                  *)
(*   hist   the documents written in full so far, and the first one        *)

EmptyStore == [doc |-> NoFile, tmp |-> NoFile, dirOk |-> TRUE]

\* /d and /e are writable directories, /d/a is a regular file, /x is not there.
InitTree ==
  [n \in Nodes |->
     IF Len(n) = 1 THEN Directory(TRUE)
     ELSE IF n = NodeOf(<<"d">>, NameA) THEN Regular(<<1, 2>>)
     ELSE None]

NoArgs ==
  [identifier |-> Nullptr, path |-> Nullptr, metadata |-> Nullptr,
   fileName |-> Nullptr, data |-> Nullptr]

NoCall ==
  [op |-> "none", args |-> NoArgs, now |-> 0, io |-> IoOk, fio |-> FileIoOk,
   resp |-> Success(FlNull), save |-> NoSave,
   before |-> [store |-> EmptyStore, tree |-> InitTree]]

\* A process between calls: `ops` counts the calls it began, `data` is the
\* document it is saving and `pre` the one it loaded, `off` the chunks it
\* wrote and `fd` where the file it writes through is now; `latest` says
\* that its rename is the last one that was made, and `saved` is the
\* document of its last operation once that has answered success.
Idle ==
  [pc |-> "idle", op |-> "none", args |-> NoArgs, pre |-> JNull, data |-> JNull,
   off |-> 0, fd |-> "none", ret |-> FALSE, ops |-> 0, latest |-> FALSE,
   saved |-> JNull]

\* bookmarks.json as a file of the tree, its bytes being its text, and a
\* file of the tree as bookmarks.json.
AsNode(file) ==
  IF file.present THEN [kind |-> "file", w |-> TRUE, data |-> file.text] ELSE None
AsFile(node) == IF node.kind = "file" THEN File(node.data) ELSE NoFile

\* There is one file system: where the tree `t` a handler started from has
\* the configuration directory, what the handler left at config_path is
\* bookmarks.json, whether save_bookmarks or a file operation put it there.
OnOneFileSystem(t, r) ==
  IF DocNode \notin DOMAIN t
  THEN r
  ELSE LET doc == IF r.tree[DocNode] = t[DocNode]
                  THEN r.store.doc
                  ELSE AsFile(r.tree[DocNode])
       IN [r EXCEPT !.store.doc = doc, !.tree[DocNode] = AsNode(doc)]

\* The method call `op` with `args` ran to its end and left `r`.
Respond(op, args, now, io, fio, r) ==
  /\ store' = OnOneFileSystem(tree, r).store
  /\ tree' = OnOneFileSystem(tree, r).tree
  /\ last' = [op |-> op, args |-> args, now |-> now, io |-> io, fio |-> fio,
              resp |-> r.resp, save |-> r.save,
              before |-> [store |-> store, tree |-> tree]]
  /\ UNCHANGED <<procs, hist>>

-----------------------------------------------------------------------------
(* The method calls, one action each; `inp` gives the arguments and the    *)
(* outcomes of the environment a specification draws from.                 *)

\* Whether create_bookmark gets as far as building the entry: only then
\* is the clock read and the registry saved.
create_bookmark_builds(s, t, args) ==
  /\ create_bookmark_check(t, args) = ""
  /\ ~load_bookmarks_of(s).threw
  /\ ~already_exists(load_bookmarks_of(s).data, args.identifier.v)

CreateBookmark(inp) ==
  \E args \in inp.creates :
    \E now \in IF create_bookmark_builds(store, tree, args) THEN inp.times ELSE {0},
       io \in IF create_bookmark_builds(store, tree, args) THEN inp.ios ELSE {IoOk} :
      Respond("createBookmark", args, now, io, FileIoOk,
              create_bookmark(store, tree, args, now, io))

ListBookmarks ==
  Respond("listBookmarks", NoArgs, 0, IoOk, FileIoOk, list_bookmarks(store, tree))

GetBookmark(inp) ==
  \E identifier \in inp.identifiers :
    LET args == [NoArgs EXCEPT !.identifier = identifier]
    IN Respond("getBookmark", args, 0, IoOk, FileIoOk, get_bookmark(store, tree, args))

BookmarkExists(inp) ==
  \E identifier \in inp.identifiers :
    LET args == [NoArgs EXCEPT !.identifier = identifier]
    IN Respond("bookmarkExists", args, 0, IoOk, FileIoOk,
               bookmark_exists(store, tree, args))

\* Whether the handler finds the bookmark it is to change: only then is
\* the registry saved.
finds_bookmark(s, args) ==
  /\ IsStringArg(args.identifier)
  /\ ~load_bookmarks_of(s).threw
  /\ contains(Bookmarks(load_bookmarks_of(s).data), args.identifier.v)

DeleteBookmark(inp) ==
  \E identifier \in inp.identifiers :
    LET args == [NoArgs EXCEPT !.identifier = identifier]
    IN \E io \in IF finds_bookmark(store, args) THEN inp.ios ELSE {IoOk} :
         Respond("deleteBookmark", args, 0, io, FileIoOk,
                 delete_bookmark(store, tree, args, io))

UpdateBookmarkMetadata(inp) ==
  \E args \in inp.updates :
    \E io \in IF finds_bookmark(store, args) THEN inp.ios ELSE {IoOk} :
      Respond("updateBookmarkMetadata", args, 0, io, FileIoOk,
              update_bookmark_metadata(store, tree, args, io))

-----------------------------------------------------------------------------
(* Spec: the registry methods over storage that works.                     *)

\* One map with a value of each scalar type.
MetaScalars ==
  FlMap([k \in {FlString("s"), FlString("i"), FlString("f"), FlString("b")} |->
           CASE k.v = "s" -> FlString("x")
             [] k.v = "i" -> FlInt(7)
             [] k.v = "f" -> FlFloat("1.5")
             [] OTHER -> FlBool(TRUE)])
\* A double that is not finite.
MetaInfinity == FlMap([k \in {FlString("f")} |-> FlFloat("inf")])
\* A value that is no scalar, and a key that is no string.
MetaNested == FlMap([k \in {FlString("l")} |-> FlList(<<>>)])
MetaIntKey == FlMap([k \in {FlInt(1)} |-> FlString("x")])

Metadatas == {FlMap(EmptyMap), MetaScalars, MetaInfinity, MetaNested, MetaIntKey}

CreateArgs(identifier, path, metadata) ==
  [NoArgs EXCEPT !.identifier = identifier, !.path = path, !.metadata = metadata]

UpdateArgs(identifier, metadata) ==
  [NoArgs EXCEPT !.identifier = identifier, !.metadata = metadata]

\* The calls of the registry methods: every identifier with every directory
\* and every metadata, and the calls each argument check turns away.
RegistryInputs ==
  [identifiers |-> {FlString("a"), FlString("b"), Nullptr},
   creates |->
     {CreateArgs(FlString(i), FlString(p), m) :
        i \in {"a", "b"}, p \in {D1, D2}, m \in Metadatas \cup {Nullptr}}
       \cup {CreateArgs(FlString(i), p, Nullptr) :
               i \in {"a", "b"}, p \in {FlString(D1A), FlString(Missing), Nullptr}}
       \cup {CreateArgs(Nullptr, FlString(D1), Nullptr),
             CreateArgs(FlString("a"), FlString(D1), FlString("x"))},
   updates |->
     {UpdateArgs(FlString(i), m) : i \in {"a", "b"}, m \in Metadatas}
       \cup {UpdateArgs(FlString("a"), Nullptr), UpdateArgs(Nullptr, MetaScalars)},
   times |-> Times,
   ios |-> {IoOk}]

Init ==
  /\ store = EmptyStore
  /\ tree = InitTree
  /\ last = NoCall
  /\ procs = [p \in {1, 2} |-> Idle]
  /\ hist = {DefaultDoc}

Next ==
  \/ CreateBookmark(RegistryInputs)
  \/ ListBookmarks
  \/ GetBookmark(RegistryInputs)
  \/ BookmarkExists(RegistryInputs)
  \/ DeleteBookmark(RegistryInputs)
  \/ UpdateBookmarkMetadata(RegistryInputs)

Spec == Init /\ [][Next]_vars


-----------------------------------------------------------------------------
(* SpecFaults: the registry methods over storage that fails, and that      *)
(* other programs change.                                                  *)

\* Something other than a method call happened last.
External == [NoCall EXCEPT !.op = "external"]

EntryD1 ==
  JObject([id |-> JString("a"), path |-> JString(D1),
           createdAt |-> JString(get_iso8601_timestamp(0)),
           metadata |-> JObject(EmptyMap)])

\* Documents another program may leave in bookmarks.json.
ExternalDocs ==
  {JArray(<<>>),
   JObject([version |-> JString("2.0")]),
   JObject([version |-> JString("2.0"), bookmarks |-> JArray(<<>>)]),
   JObject([version |-> JString("1.0"), bookmarks |-> JObject([a |-> EntryD1]),
            note |-> JString("x")]),
   JObject([version |-> JString("2.0"),
            bookmarks |-> JObject([a |-> JObject([path |-> JString(D1)])])]),
   JObject([version |-> JString("2.0"), bookmarks |-> JObject([a |-> JString("x")])])}

\* Another program writes bookmarks.json: a whole document, or a text cut short.
ExternalEdit ==
  /\ \E j \in ExternalDocs, upto \in {NumChunks - 1, NumChunks} :
       store' = [store EXCEPT !.doc = File(SubSeq(Dump(j), 1, upto))]
  /\ last' = External
  /\ UNCHANGED <<tree, procs, hist>>

\* bookmarks.json is removed.
ExternalRemove ==
  /\ store.doc.present
  /\ store' = [store EXCEPT !.doc = NoFile]
  /\ last' = External
  /\ UNCHANGED <<tree, procs, hist>>

\* The mode of bookmarks.json changes: it can be opened for reading or not.
ExternalChmod ==
  /\ store.doc.present
  /\ store' = [store EXCEPT !.doc.readable = ~@]
  /\ last' = External
  /\ UNCHANGED <<tree, procs, hist>>

\* The configuration directory becomes, or stops being, one that can be
\* created and searched.
ConfigDirAccess ==
  /\ store' = [store EXCEPT !.dirOk = ~@]
  /\ last' = External
  /\ UNCHANGED <<tree, procs, hist>>

FaultInputs ==
  [identifiers |-> {FlString("a"), FlString("b")},
   creates |-> {CreateArgs(FlString(i), FlString(D1), m) :
                  i \in {"a", "b"}, m \in {Nullptr, MetaScalars}},
   updates |-> {UpdateArgs(FlString(i), MetaScalars) : i \in {"a", "b"}},
   times |-> {0},
   ios |-> {IoOk} \cup IoFaults]

NextFaults ==
  \/ CreateBookmark(FaultInputs)
  \/ ListBookmarks
  \/ GetBookmark(FaultInputs)
  \/ BookmarkExists(FaultInputs)
  \/ DeleteBookmark(FaultInputs)
  \/ UpdateBookmarkMetadata(FaultInputs)
  \/ ExternalEdit
  \/ ExternalRemove
  \/ ExternalChmod
  \/ ConfigDirAccess

SpecFaults == Init /\ [][NextFaults]_vars

-----------------------------------------------------------------------------
(* SpecFiles: the file operations, over a file system other programs       *)
(* change.                                                                 *)

FileArgs(identifier, fileName, data) ==
  [NoArgs EXCEPT !.identifier = identifier, !.fileName = fileName, !.data = data]

SaveFile(inp) ==
  \E identifier \in inp.identifiers, fileName \in inp.fileNames, data \in inp.datas,
     fio \in inp.fios :
    LET args == FileArgs(identifier, fileName, data)
    IN Respond("saveFile", args, 0, IoOk, fio, save_file(store, tree, args, fio))

ReadFile(inp) ==
  \E identifier \in inp.identifiers, fileName \in inp.fileNames, fio \in inp.fios :
    LET args == FileArgs(identifier, fileName, Nullptr)
    IN Respond("readFile", args, 0, IoOk, fio, read_file(store, tree, args, fio))

ListFiles(inp) ==
  \E identifier \in inp.identifiers, order \in inp.orders, fio \in inp.fios :
    LET args == FileArgs(identifier, Nullptr, Nullptr)
    IN Respond("listFiles", args, 0, IoOk, fio,
               list_files(store, tree, args, order, fio))

DeleteFile(inp) ==
  \E identifier \in inp.identifiers, fileName \in inp.fileNames, fio \in inp.fios :
    LET args == FileArgs(identifier, fileName, Nullptr)
    IN Respond("deleteFile", args, 0, IoOk, fio, delete_file(store, tree, args, fio))

FileExists(inp) ==
  \E identifier \in inp.identifiers, fileName \in inp.fileNames :
    LET args == FileArgs(identifier, fileName, Nullptr)
    IN Respond("fileExists", args, 0, IoOk, FileIoOk, file_exists(store, tree, args))

HasWritePermission(inp) ==
  \E identifier \in inp.identifiers :
    LET args == FileArgs(identifier, Nullptr, Nullptr)
    IN Respond("hasWritePermission", args, 0, IoOk, FileIoOk,
               has_write_permission(store, tree, args))

RequestWritePermission(inp) ==
  \E identifier \in inp.identifiers :
    LET args == FileArgs(identifier, Nullptr, Nullptr)
    IN Respond("requestWritePermission", args, 0, IoOk, FileIoOk,
               request_write_permission(store, tree, args))

\* The tree without the directory /<d> and what is in it, `node` in its place.
Replaced(t, d, node) ==
  [n \in DOMAIN t |-> IF n = <<d>> THEN node ELSE IF n[1] = d THEN None ELSE t[n]]

\* Another program removes a directory with what is in it.
RemoveDirectory(ds) ==
  /\ \E d \in ds : /\ tree[<<d>>].kind = "dir"
                   /\ tree' = Replaced(tree, d, None)
  /\ last' = External
  /\ UNCHANGED <<store, procs, hist>>

\* Another program puts a regular file where the directory was.
ReplaceByFile(ds) ==
  /\ \E d \in ds : /\ tree[<<d>>].kind # "file"
                   /\ tree' = Replaced(tree, d, Regular(<<>>))
  /\ last' = External
  /\ UNCHANGED <<store, procs, hist>>

\* Another program makes the directory again, empty.
MakeDirectory(ds) ==
  /\ \E d \in ds : /\ tree[<<d>>].kind # "dir"
                   /\ tree' = Replaced(tree, d, Directory(TRUE))
  /\ last' = External
  /\ UNCHANGED <<store, procs, hist>>

\* The write permission of the directory is taken or given.
ChmodDirectory(ds) ==
  /\ \E d \in ds : /\ tree[<<d>>].kind = "dir"
                   /\ tree' = [tree EXCEPT ![<<d>>].w = ~@]
  /\ last' = External
  /\ UNCHANGED <<store, procs, hist>>

\* The order readdir gives the names in.
NameOrder == <<NameA, NameHidden, NameSub>>

\* Bookmark a is made on /d and b on /e; /d is the directory that changes.
FileInputs ==
  [identifiers |-> {FlString("a"), FlString("b")},
   creates |-> {CreateArgs(FlString("a"), FlString(D1), Nullptr),
                CreateArgs(FlString("b"), FlString(D2), Nullptr)},
   updates |-> {},
   times |-> {0},
   ios |-> {IoOk},
   fileNames |-> {FlString(NameA), FlString(NameHidden), FlString(NameUp)},
   datas |-> {FlUint8List(<<3>>)},
   orders |-> {NameOrder},
   fios |-> {FileIoOk},
   changing |-> {<<"d">>}]

NextFiles ==
  \/ CreateBookmark(FileInputs)
  \/ ListBookmarks
  \/ GetBookmark(FileInputs)
  \/ DeleteBookmark(FileInputs)
  \/ SaveFile(FileInputs)
  \/ ReadFile(FileInputs)
  \/ ListFiles(FileInputs)
  \/ DeleteFile(FileInputs)
  \/ FileExists(FileInputs)
  \/ HasWritePermission(FileInputs)
  \/ RequestWritePermission(FileInputs)
  \/ RemoveDirectory(FileInputs.changing)
  \/ ReplaceByFile(FileInputs.changing)
  \/ MakeDirectory(FileInputs.changing)
  \/ ChmodDirectory(FileInputs.changing)

SpecFiles == Init /\ [][NextFiles]_vars

-----------------------------------------------------------------------------
(* SpecCrash and SpecConc: a registry mutation as the steps it takes on    *)
(* the files (load and modify, open the temporary file, write it chunk by  *)
(* chunk, rename it), in one process that may crash and in two processes   *)
(* that run side by side.                                                  *)

\* The registry an earlier run of the application left: bookmark a on /d.
DocWithA ==
  WithBookmark(DefaultDoc, "a",
               NewBookmark(CreateArgs(FlString("a"), FlString(D1), Nullptr), 0))

InitSteps ==
  /\ store = [EmptyStore EXCEPT !.doc = File(Dump(DocWithA))]
  /\ tree = InitTree
  /\ last = NoCall
  /\ procs = [p \in {1, 2} |-> Idle]
  /\ hist = {DocWithA}

\* The document as a reader of the whole text finds it.
AsSaved(data) == Parse(Dump(data)).val

Began(p, op, args, pre, data) ==
  /\ procs' = [procs EXCEPT ![p] = [@ EXCEPT !.pc = "open", !.op = op, !.args = args,
                                               !.pre = pre, !.data = data,
                                               !.off = 0, !.fd = "none",
                                               !.ops = @ + 1, !.saved = JNull]]
  /\ UNCHANGED <<store, tree, last, hist>>

\* create_bookmark up to its call of save_bookmarks.
BeginCreate(p, inp) ==
  /\ procs[p].pc = "idle"
  /\ procs[p].ops < MaxOps
  /\ \E args \in inp.creates, now \in inp.times :
       /\ create_bookmark_builds(store, tree, args)
       /\ Began(p, "createBookmark", args, load_bookmarks.data,
                WithBookmark(load_bookmarks.data, args.identifier.v,
                             NewBookmark(args, now)))

\* delete_bookmark up to its call of save_bookmarks.
BeginDelete(p, inp) ==
  /\ procs[p].pc = "idle"
  /\ procs[p].ops < MaxOps
  /\ \E identifier \in inp.identifiers :
       LET args == [NoArgs EXCEPT !.identifier = identifier]
       IN /\ finds_bookmark(store, args)
          /\ Began(p, "deleteBookmark", args, load_bookmarks.data,
                   WithoutBookmark(load_bookmarks.data, identifier.v))

\* std::ofstream out(temp_path): the file is made, or is cut to no bytes
\* under whoever else is writing it.
StepOpen(p) ==
  /\ procs[p].pc = "open"
  /\ store' = IF SaveTarget = "tmp" THEN OpenTemp(store)
              ELSE [store EXCEPT !.doc = File(<<>>)]
  /\ procs' = [procs EXCEPT ![p].pc = "write", ![p].fd = SaveTarget]
  /\ UNCHANGED <<tree, last, hist>>

\* out << data.dump(2); out.close(): one write(2) of the text. After the
\* last one the document stands written in full.
StepWrite(p) ==
  /\ procs[p].pc = "write"
  /\ store' = WriteChunk(store, procs[p].fd, procs[p].off,
                         Dump(procs[p].data)[procs[p].off + 1])
  /\ procs' = [procs EXCEPT ![p] =
                 IF @.off + 1 = NumChunks
                 THEN [@ EXCEPT !.pc = "rename", !.off = NumChunks, !.fd = "none"]
                 ELSE [@ EXCEPT !.off = @ + 1]]
  /\ hist' = IF procs[p].off + 1 = NumChunks
             THEN hist \cup {AsSaved(procs[p].data)}
             ELSE hist
  /\ UNCHANGED <<tree, last>>

\* Where a descriptor leads once the temporary file has been renamed.
AfterRename(fd) ==
  CASE fd = "tmp" -> "doc"
    [] fd = "doc" -> "orphan"
    [] OTHER -> fd

\* fs::rename(temp_path, config_path); when there is no temporary file it
\* throws, and the catch block returns false.
StepRename(p) ==
  /\ procs[p].pc = "rename"
  /\ IF SaveTarget = "tmp" /\ store.tmp.present
     THEN /\ store' = RenameTemp(store)
          /\ procs' = [q \in DOMAIN procs |->
                         IF q = p
                         THEN [procs[q] EXCEPT !.pc = "return", !.ret = TRUE,
                                               !.latest = TRUE]
                         ELSE [procs[q] EXCEPT !.fd = AfterRename(@),
                                               !.latest = FALSE]]
     ELSE /\ store' = store
          /\ procs' = [procs EXCEPT ![p].pc = "return",
                                    ![p].ret = (SaveTarget # "tmp")]
  /\ UNCHANGED <<tree, last, hist>>

\* What the handler answers once save_bookmarks has returned `ret`.
Responded(op, args, ret) ==
  IF op = "createBookmark"
  THEN IF ret THEN Success(FlString(args.identifier.v)) ELSE Error("WRITE_ERROR")
  ELSE Success(FlBool(ret))

Return(p) ==
  /\ procs[p].pc = "return"
  /\ last' = [NoCall EXCEPT !.op = procs[p].op, !.args = procs[p].args,
                            !.resp = Responded(procs[p].op, procs[p].args, procs[p].ret),
                            !.save = [called |-> TRUE, ret |-> procs[p].ret,
                                      data |-> procs[p].data],
                            !.before = [store |-> store, tree |-> tree]]
  /\ procs' = [procs EXCEPT ![p] = [Idle EXCEPT !.ops = procs[p].ops,
                                                !.latest = procs[p].latest,
                                                !.saved = IF procs[p].ret
                                                          THEN procs[p].data
                                                          ELSE JNull]]
  /\ UNCHANGED <<store, tree, hist>>

\* The process is killed in the middle of save_bookmarks: the files stay
\* as they are.
Crash(p) ==
  /\ procs[p].pc \in {"open", "write", "rename"}
  /\ procs' = [procs EXCEPT ![p].pc = "crashed", ![p].fd = "none"]
  /\ UNCHANGED <<store, tree, last, hist>>

\* The application is started again.
Restart(p) ==
  /\ procs[p].pc = "crashed"
  /\ procs' = [procs EXCEPT ![p] = [Idle EXCEPT !.ops = procs[p].ops]]
  /\ UNCHANGED <<store, tree, last, hist>>

StepInputs ==
  [identifiers |-> {FlString("a"), FlString("b")},
   creates |-> {CreateArgs(FlString("b"), FlString(D1), Nullptr),
                CreateArgs(FlString("b"), FlString(D2), Nullptr)},
   updates |-> {},
   times |-> {0},
   ios |-> {IoOk}]

NextCrash ==
  \/ BeginCreate(1, StepInputs)
  \/ BeginDelete(1, StepInputs)
  \/ StepOpen(1)
  \/ StepWrite(1)
  \/ StepRename(1)
  \/ Return(1)
  \/ Crash(1)
  \/ Restart(1)
  \/ ListBookmarks
  \/ GetBookmark(StepInputs)

SpecCrash == InitSteps /\ [][NextCrash]_vars

NextConc ==
  \/ \E p \in {1, 2} :
       \/ BeginCreate(p, StepInputs)
       \/ BeginDelete(p, StepInputs)
       \/ StepOpen(p)
       \/ StepWrite(p)
       \/ StepRename(p)
       \/ Return(p)
  \/ ListBookmarks

SpecConc == InitSteps /\ [][NextConc]_vars

-----------------------------------------------------------------------------
(* SpecContents: the file operations on a bookmarked directory /d that     *)
(* holds whatever other programs left in it.                               *)

\* What other programs may have left in /d: a regular file a, a hidden
\* file .h, a subdirectory s, each there or not, in a directory that is
\* writable or not.
Contents ==
  {[n \in Nodes |->
      IF n = <<<<"d">>>> THEN Directory(w)
      ELSE IF Len(n) = 1 THEN Directory(TRUE)
      ELSE IF n = NodeOf(<<"d">>, NameA) /\ a THEN Regular(<<1, 2>>)
      ELSE IF n = NodeOf(<<"d">>, NameHidden) /\ h THEN Regular(<<1, 2>>)
      ELSE IF n = NodeOf(<<"d">>, NameSub) /\ sub THEN Directory(TRUE)
      ELSE None] : w \in BOOLEAN, a \in BOOLEAN, h \in BOOLEAN, sub \in BOOLEAN}

\* Bookmark a was made on /d by an earlier call.
InitContents ==
  /\ store = [EmptyStore EXCEPT !.doc = File(Dump(DocWithA))]
  /\ tree \in Contents
  /\ last = NoCall
  /\ procs = [p \in {1, 2} |-> Idle]
  /\ hist = {DocWithA}

ContentsInputs ==
  [identifiers |-> {FlString("a"), FlString("b")},
   fileNames |-> {FlString(NameA), FlString(NameHidden), FlString(NameSub),
                  FlString(NameUp), FlString(NameLong)},
   datas |-> {FlUint8List(<<3>>)},
   orders |-> {NameOrder, <<NameSub, NameHidden, NameA>>},
   fios |-> {FileIoOk}]

NextContents ==
  \/ SaveFile(ContentsInputs)
  \/ ReadFile(ContentsInputs)
  \/ ListFiles(ContentsInputs)
  \/ DeleteFile(ContentsInputs)
  \/ FileExists(ContentsInputs)
  \/ HasWritePermission(ContentsInputs)

SpecContents == InitContents /\ [][NextContents]_vars

-----------------------------------------------------------------------------
(* SpecOwnDir: bookmark b on the directory /e, empty when the bookmark is  *)
(* made and changed by nothing but saveFile and deleteFile; `hist` keeps   *)
(* the names saved and not deleted since.                                  *)

InitOwnDir ==
  /\ store = EmptyStore
  /\ tree = InitTree
  /\ last = NoCall
  /\ procs = [p \in {1, 2} |-> Idle]
  /\ hist = [live |-> {}, plain |-> TRUE]

\* The call ran to its end and left `r`; `names` is what `hist` keeps now.
Tracked(op, args, fio, r, names) ==
  /\ store' = r.store
  /\ tree' = r.tree
  /\ last' = [op |-> op, args |-> args, now |-> 0, io |-> IoOk, fio |-> fio,
              resp |-> r.resp, save |-> r.save,
              before |-> [store |-> store, tree |-> tree]]
  /\ hist' = names
  /\ UNCHANGED procs

\* A fileName of one segment.
IsPlain(chars) == chars # <<>> /\ \A i \in DOMAIN chars : chars[i] # "/"

SaveFileTracked(inp) ==
  \E identifier \in inp.identifiers, fileName \in inp.fileNames, data \in inp.datas :
    LET args == FileArgs(identifier, fileName, data)
        r == save_file(store, tree, args, FileIoOk)
    IN Tracked("saveFile", args, FileIoOk, r,
               IF r.resp = Success(FlBool(TRUE))
               THEN [live |-> hist.live \cup {fileName.v},
                     plain |-> hist.plain /\ IsPlain(fileName.v)]
               ELSE hist)

DeleteFileTracked(inp) ==
  \E identifier \in inp.identifiers, fileName \in inp.fileNames :
    LET args == FileArgs(identifier, fileName, Nullptr)
        r == delete_file(store, tree, args, FileIoOk)
    IN Tracked("deleteFile", args, FileIoOk, r,
               IF r.resp = Success(FlBool(TRUE))
               THEN [live |-> hist.live \ {fileName.v},
                     plain |-> hist.plain /\ IsPlain(fileName.v)]
               ELSE hist)

OwnDirInputs ==
  [identifiers |-> {FlString("b")},
   creates |-> {CreateArgs(FlString("b"), FlString(D2), Nullptr)},
   times |-> {0},
   ios |-> {IoOk},
   fileNames |-> {FlString(NameA), FlString(NameHidden), FlString(NameUp)},
   datas |-> {FlUint8List(<<3>>), FlUint8List(<<>>)},
   orders |-> {NameOrder},
   fios |-> {FileIoOk}]

NextOwnDir ==
  \/ CreateBookmark(OwnDirInputs)
  \/ SaveFileTracked(OwnDirInputs)
  \/ DeleteFileTracked(OwnDirInputs)
  \/ ReadFile(OwnDirInputs)
  \/ ListFiles(OwnDirInputs)

SpecOwnDir == InitOwnDir /\ [][NextOwnDir]_vars

-----------------------------------------------------------------------------
(* SpecShapes: the registry methods called with empty strings, on a        *)
(* registry of two entries made at different times.                        *)

ShapeInputs ==
  [identifiers |-> {FlString(""), FlString("a")},
   creates |-> {CreateArgs(FlString(i), FlString(p), m) :
                  i \in {"", "a"}, p \in {<<>>, D1}, m \in {Nullptr, MetaScalars}},
   updates |-> {UpdateArgs(FlString(i), m) :
                  i \in {"", "a"}, m \in {FlMap(EmptyMap), MetaScalars}},
   times |-> Times,
   ios |-> {IoOk}]

NextShapes ==
  \/ CreateBookmark(ShapeInputs)
  \/ ListBookmarks
  \/ GetBookmark(ShapeInputs)
  \/ DeleteBookmark(ShapeInputs)
  \/ UpdateBookmarkMetadata(ShapeInputs)

SpecShapes == Init /\ [][NextShapes]_vars

-----------------------------------------------------------------------------
(* SpecOneFs: every method, the configuration directory being a directory  *)
(* of the tree that a bookmark can be made on.                             *)

OneFsDirs == Dirs \cup {<<"c">>}
OneFsNodes ==
  {<<d>> : d \in OneFsDirs}
    \cup {NodeOf(d, n) : d \in OneFsDirs, n \in LeafNames \cup {NameDoc}}

\* /c, /d and /e are writable directories without files.
InitOneFs ==
  /\ store = EmptyStore
  /\ tree = [n \in OneFsNodes |-> IF Len(n) = 1 THEN Directory(TRUE) ELSE None]
  /\ last = NoCall
  /\ procs = [p \in {1, 2} |-> Idle]
  /\ hist = {DefaultDoc}

\* Bookmark a is made on the configuration directory and b on /d; the bytes
\* saved are given as the text they make, one zero byte.
OneFsInputs ==
  [identifiers |-> {FlString("a"), FlString("b"), Nullptr},
   creates |-> {CreateArgs(FlString("a"), FlString(config_dir), Nullptr),
                CreateArgs(FlString("b"), FlString(D1), Nullptr),
                CreateArgs(FlString("b"), FlString(Missing), Nullptr)},
   updates |-> {UpdateArgs(FlString(i), MetaScalars) : i \in {"a", "b"}},
   times |-> {0},
   ios |-> {IoOk},
   fileNames |-> {FlString(NameA), FlString(NameDoc)},
   datas |-> {FlUint8List(<<Hole>>)},
   orders |-> {<<NameA, NameDoc>>},
   fios |-> {FileIoOk}]

NextOneFs ==
  \/ CreateBookmark(OneFsInputs)
  \/ ListBookmarks
  \/ GetBookmark(OneFsInputs)
  \/ BookmarkExists(OneFsInputs)
  \/ DeleteBookmark(OneFsInputs)
  \/ UpdateBookmarkMetadata(OneFsInputs)
  \/ SaveFile(OneFsInputs)
  \/ ReadFile(OneFsInputs)
  \/ ListFiles(OneFsInputs)
  \/ DeleteFile(OneFsInputs)
  \/ FileExists(OneFsInputs)
  \/ HasWritePermission(OneFsInputs)
  \/ RequestWritePermission(OneFsInputs)

SpecOneFs == InitOneFs /\ [][NextOneFs]_vars

-----------------------------------------------------------------------------
(* SpecFileFaults: the file operations when the I/O on the file fails.     *)

FileFaultInputs ==
  [identifiers |-> {FlString("a"), FlString("b")},
   fileNames |-> {FlString(NameA), FlString(NameSub)},
   datas |-> {FlUint8List(<<3>>)},
   orders |-> {NameOrder},
   fios |-> {FileIoOk} \cup FileIoFaults]

NextFileFaults ==
  \/ SaveFile(FileFaultInputs)
  \/ ReadFile(FileFaultInputs)
  \/ ListFiles(FileFaultInputs)
  \/ DeleteFile(FileFaultInputs)

SpecFileFaults == InitContents /\ [][NextFileFaults]_vars

-----------------------------------------------------------------------------
(* What the claims speak of.                                               *)

\* The response a getBookmark(identifier) issued now receives.
GetNow(identifier) ==
  get_bookmark(store, tree, [NoArgs EXCEPT !.identifier = FlString(identifier)]).resp

\* The response a listBookmarks issued now receives.
ListNow == list_bookmarks(store, tree).resp

\* The registry the last call loaded, and whether its identifier was in it.
RegistryBefore == load_bookmarks_of(last.before.store).data
WasPresent ==
  IsStringArg(last.args.identifier)
    /\ contains(Bookmarks(RegistryBefore), last.args.identifier.v)
WasAbsent ==
  IsStringArg(last.args.identifier)
    /\ ~contains(Bookmarks(RegistryBefore), last.args.identifier.v)

\* The registry as a load finds it now.
RegistryNow == load_bookmarks.data

\* A string-keyed mapping of scalar values: the metadata of the data model.
IsScalarMapping(m) ==
  /\ m.type = "FL_VALUE_TYPE_MAP"
  /\ \A k \in DOMAIN m.v :
       /\ k.type = "FL_VALUE_TYPE_STRING"
       /\ m.v[k].type \in {"FL_VALUE_TYPE_STRING", "FL_VALUE_TYPE_INT",
                           "FL_VALUE_TYPE_FLOAT", "FL_VALUE_TYPE_BOOL"}

\* The member `key` of the entry map a getBookmark response carries.
Member(resp, key) == resp.value.v[FlString(key)]
IsEntry(resp) == resp.kind = "success" /\ resp.value.type = "FL_VALUE_TYPE_MAP"

\* The metadata a createBookmark call supplied: its map, or the empty one.
Supplied(metadata) ==
  IF metadata.type = "FL_VALUE_TYPE_MAP" THEN metadata ELSE FlMap(EmptyMap)

\* The last call was createBookmark of an unused identifier on a directory.
CreateOfUnusedOnDirectory ==
  /\ last.op = "createBookmark"
  /\ WasAbsent
  /\ IsStringArg(last.args.path)
  /\ IsDirectory(last.before.tree, last.args.path.v)

\* C1: createBookmark of an identifier not in the registry on an existing
\* directory succeeds and returns the identifier, and a getBookmark issued
\* next returns the given path, the createdAt of the create call and the
\* supplied metadata (a string-keyed mapping of scalars, or none).
C1_CreateThenGet ==
  (CreateOfUnusedOnDirectory
     /\ (last.args.metadata.type = "FL_VALUE_TYPE_MAP"
           => IsScalarMapping(last.args.metadata)))
    => /\ last.resp = Success(last.args.identifier)
       /\ IsEntry(GetNow(last.args.identifier.v))
       /\ Member(GetNow(last.args.identifier.v), "path") = last.args.path
       /\ Member(GetNow(last.args.identifier.v), "createdAt")
            = FlString(get_iso8601_timestamp(last.now))
       /\ Member(GetNow(last.args.identifier.v), "metadata")
            = Supplied(last.args.metadata)

\* The part of C1 that does not depend on the metadata.
C1_PathAndCreatedAt ==
  CreateOfUnusedOnDirectory
    => /\ last.resp = Success(last.args.identifier)
       /\ IsEntry(GetNow(last.args.identifier.v))
       /\ Member(GetNow(last.args.identifier.v), "identifier") = last.args.identifier
       /\ Member(GetNow(last.args.identifier.v), "path") = last.args.path
       /\ Member(GetNow(last.args.identifier.v), "createdAt")
            = FlString(get_iso8601_timestamp(last.now))

\* The last call was createBookmark of an identifier the registry holds.
CreateOfPresent ==
  /\ last.op = "createBookmark"
  /\ WasPresent
  /\ IsStringArg(last.args.path)

\* C2 as stated: createBookmark of an identifier already in the registry
\* fails with BookmarkAlreadyExists whatever the path (the same, another
\* directory, a file, nothing), and the entry is not overwritten.
C2_ReusedAlwaysAlreadyExists ==
  CreateOfPresent
    => /\ last.resp = Error("BOOKMARK_ALREADY_EXISTS")
       /\ RegistryNow = RegistryBefore

\* C2 as amended: createBookmark of an identifier already in the registry
\* fails with BookmarkAlreadyExists when the path is an existing directory
\* and with DirectoryNotFound when it is not; the entry is never overwritten.
C2_ReusedFails ==
  CreateOfPresent
    => /\ last.resp = IF IsDirectory(last.before.tree, last.args.path.v)
                      THEN Error("BOOKMARK_ALREADY_EXISTS")
                      ELSE Error("DIRECTORY_NOT_FOUND")
       /\ RegistryNow = RegistryBefore
       /\ store = last.before.store

C2_Witness ==
  /\ CreateOfPresent
  /\ IsDirectory(last.before.tree, last.args.path.v)
  /\ Bookmarks(RegistryBefore).v[last.args.identifier.v].v["path"] # JString(last.args.path.v)
  /\ last.resp = Error("BOOKMARK_ALREADY_EXISTS")

\* C3: createBookmark with a path that is a regular file or is not there
\* fails with DirectoryNotFound and leaves the registry document as it was.
C3_NotADirectory ==
  (/\ last.op = "createBookmark"
   /\ IsStringArg(last.args.identifier)
   /\ IsStringArg(last.args.path)
   /\ ~IsDirectory(last.before.tree, last.args.path.v))
    => /\ last.resp = Error("DIRECTORY_NOT_FOUND")
       /\ store = last.before.store

C3_Witness ==
  /\ last.op = "createBookmark"
  /\ WasPresent
  /\ IsStringArg(last.args.path)
  /\ IsRegularFile(last.before.tree, last.args.path.v)
  /\ last.resp = Error("DIRECTORY_NOT_FOUND")
  /\ last.before.store.doc.present

\* C4: deleteBookmark of an identifier in the registry returns true and a
\* getBookmark issued next returns absent; of an identifier not in it,
\* false, with the registry unchanged, and false again when repeated.
C4_Delete ==
  /\ (last.op = "deleteBookmark" /\ WasPresent)
       => /\ last.resp = Success(FlBool(TRUE))
          /\ GetNow(last.args.identifier.v) = Success(FlNull)
  /\ (last.op = "deleteBookmark" /\ WasAbsent)
       => /\ last.resp = Success(FlBool(FALSE))
          /\ store = last.before.store
          /\ delete_bookmark(store, tree, last.args, IoOk).resp = Success(FlBool(FALSE))
          /\ delete_bookmark(store, tree, last.args, IoOk).store = store

C4_Witness ==
  /\ last.op = "deleteBookmark"
  /\ WasPresent
  /\ last.resp = Success(FlBool(TRUE))
  /\ GetNow(last.args.identifier.v) = Success(FlNull)
  /\ Bookmarks(RegistryNow).v # EmptyMap

\* C5: updateBookmarkMetadata(id, M) of an identifier in the registry, M a
\* string-keyed mapping of scalars, returns true and a getBookmark issued
\* next returns metadata equal to M; of an identifier not in the registry
\* it returns false and creates no entry.
C5_UpdateThenGet ==
  /\ (last.op = "updateBookmarkMetadata" /\ WasPresent
        /\ IsScalarMapping(last.args.metadata))
       => /\ last.resp = Success(FlBool(TRUE))
          /\ IsEntry(GetNow(last.args.identifier.v))
          /\ Member(GetNow(last.args.identifier.v), "metadata") = last.args.metadata
  /\ (last.op = "updateBookmarkMetadata" /\ WasAbsent
        /\ IsScalarMapping(last.args.metadata))
       => /\ last.resp = Success(FlBool(FALSE))
          /\ store = last.before.store
          /\ GetNow(last.args.identifier.v) = Success(FlNull)

\* The part of C5 that holds: the same for every M whose doubles are finite.
HasNonFinite(m) ==
  \E k \in DOMAIN m.v : m.v[k].type = "FL_VALUE_TYPE_FLOAT" /\ m.v[k].v \in NonFinite
C5_FiniteUpdateThenGet ==
  (last.op = "updateBookmarkMetadata" /\ WasPresent
     /\ IsScalarMapping(last.args.metadata) /\ ~HasNonFinite(last.args.metadata))
    => /\ last.resp = Success(FlBool(TRUE))
       /\ IsEntry(GetNow(last.args.identifier.v))
       /\ Member(GetNow(last.args.identifier.v), "metadata") = last.args.metadata


\* The last call saved the registry.
SaveWasCalled == last.op # "external" /\ last.save.called

\* C7: save returns false on any I/O failure (of the open of the temporary
\* file, of the write of its bytes, of the rename) and true only on
\* success: when it returns true the document file holds the serialized
\* document, and when an I/O step fails a load still returns the document
\* saved before.
C7_SaveReportsFailure ==
  SaveWasCalled
    => /\ last.save.ret = (last.io.fail = "none")
       /\ last.save.ret => store.doc = File(Dump(last.save.data))
       /\ last.io.fail # "none"
            => load_bookmarks.data = load_bookmarks_of(last.before.store).data

\* The part of C7 that holds: a save whose open or rename fails returns
\* false and leaves bookmarks.json as it was, and a save none of whose
\* steps fails returns true and leaves the serialized document.
C7_OpenAndRenameFailures ==
  SaveWasCalled
    => /\ last.io.fail \in {"open", "rename"}
            => ~last.save.ret /\ store.doc = last.before.store.doc
       /\ last.io.fail = "none"
            => last.save.ret /\ store.doc = File(Dump(last.save.data))

\* The cases in which load is to fall back on the default document.
DocumentUnusable ==
  \/ ~store.doc.present
  \/ ~store.doc.readable
  \/ ~Parse(store.doc.text).ok
  \/ ~contains(Parse(store.doc.text).val, "bookmarks")
  \/ ~is_object(Parse(store.doc.text).val.v["bookmarks"])

\* C9: load never fails: it returns the default document when the document
\* file is absent, cannot be opened, cannot be parsed or has no `bookmarks`
\* object, and the parsed document unchanged otherwise.
C9_LoadNeverFails ==
  /\ ~load_bookmarks.threw
  /\ DocumentUnusable => load_bookmarks.data = DefaultDoc
  /\ ~DocumentUnusable => load_bookmarks.data = Parse(store.doc.text).val

\* The part of C9 that holds: the same, while the configuration directory
\* can be created and searched.
C9_LoadFallsBack ==
  store.dirOk
    => /\ ~load_bookmarks.threw
       /\ DocumentUnusable => load_bookmarks.data = DefaultDoc
       /\ ~DocumentUnusable => load_bookmarks.data = Parse(store.doc.text).val


\* The path the registry held for the identifier of the last call.
StoredPath == Bookmarks(RegistryBefore).v[last.args.identifier.v].v["path"].v

\* The last call was a file operation on a bookmark whose directory was
\* gone, or was no directory any more.
OnStaleBookmark ==
  /\ last.op \in {"saveFile", "readFile", "listFiles", "deleteFile", "fileExists",
                  "hasWritePermission", "requestWritePermission"}
  /\ WasPresent
  /\ ~IsDirectory(last.before.tree, StoredPath)

\* C10: once the directory of a bookmark is deleted or replaced by a
\* non-directory, saveFile, readFile, listFiles and deleteFile on the
\* identifier fail with BOOKMARK_NOT_FOUND and fileExists and
\* hasWritePermission return false; the check is made again on every call,
\* so a call made while the directory is there does not fail so; and none
\* of the calls changes the registry: getBookmark and listBookmarks still
\* return the entry.
C10_StaleBookmark ==
  /\ OnStaleBookmark
       => /\ last.op \in {"saveFile", "readFile", "listFiles", "deleteFile"}
               => last.resp = BookmarkNotFound
          /\ last.op \in {"fileExists", "hasWritePermission", "requestWritePermission"}
               => last.resp = Success(FlBool(FALSE))
          /\ store = last.before.store
          /\ tree = last.before.tree
          /\ IsEntry(GetNow(last.args.identifier.v))
          /\ Member(GetNow(last.args.identifier.v), "path") = FlString(StoredPath)
          /\ \E i \in DOMAIN ListNow.value.v :
               ListNow.value.v[i] = GetNow(last.args.identifier.v).value
  /\ (last.op \in {"saveFile", "readFile", "listFiles", "deleteFile"}
        /\ WasPresent /\ IsDirectory(last.before.tree, StoredPath))
       => last.resp # BookmarkNotFound

\* A saveFile turned away because /d was replaced by a regular file, after
\* one that was let through.
C10_Witness ==
  /\ OnStaleBookmark
  /\ last.op = "saveFile"
  /\ last.resp = BookmarkNotFound
  /\ last.before.tree[<<<<"d">>>>].kind = "file"
  /\ IsEntry(GetNow("a"))

\* fileExists answering false for a file of a directory that was removed.
C10_WitnessRemoved ==
  /\ OnStaleBookmark
  /\ last.op = "fileExists"
  /\ last.resp = Success(FlBool(FALSE))
  /\ last.before.tree[<<<<"d">>>>].kind = "none"


\* Process 1 is in the middle of a save, or was killed there.
SaveInterrupted == procs[1].pc \in {"open", "write", "rename", "crashed"}

\* C6: when a save is interrupted by a crash anywhere between the start of
\* the write of the temporary file and the end of the rename, a load made
\* afterwards returns the whole document of before the save or the whole
\* document the save was writing, and what is left of the temporary file
\* is not read as the registry.
C6_CrashAtomic ==
  SaveInterrupted
    => /\ ~load_bookmarks.threw
       /\ load_bookmarks.data \in {procs[1].pre, AsSaved(procs[1].data)}
       /\ load_bookmarks = load_bookmarks_of(RemoveTemp(store))

\* Killed with half of the text in the temporary file, the registry of
\* before the save still being what a load returns.
C6_Witness ==
  /\ procs[1].pc = "crashed"
  /\ store.tmp.present
  /\ Len(store.tmp.text) \in 1..(NumChunks - 1)
  /\ load_bookmarks.data = procs[1].pre
  /\ procs[1].pre # AsSaved(procs[1].data)
  /\ Bookmarks(procs[1].pre).v # EmptyMap

\* C8: with two processes mutating the registry side by side, under every
\* interleaving of their file steps a load returns a document some writer
\* wrote in full, or the first one: never a partial or a mixed one.
C8_ReadersSeeWholeDocuments ==
  /\ ~load_bookmarks.threw
  /\ load_bookmarks.data \in hist
  /\ store.doc.present /\ Parse(store.doc.text).ok


\* The responses a readFile and a listFiles issued now receive.
ReadNow(identifier, fileName) ==
  read_file(store, tree, FileArgs(identifier, fileName, Nullptr), FileIoOk).resp
FilesNow(identifier) ==
  list_files(store, tree, FileArgs(identifier, Nullptr, Nullptr), NameOrder, FileIoOk).resp

\* How often a listFiles response holds the name.
Occurrences(resp, fileName) ==
  Cardinality({i \in DOMAIN resp.value.v : resp.value.v[i] = fileName})

\* The bookmark of the last call resolved to a directory, a writable one.
WasLive == WasPresent /\ IsDirectory(last.before.tree, StoredPath)
WasLiveWritable == WasLive /\ Writable(last.before.tree, StoredPath)

\* The path the last call built from the stored path and its fileName.
TargetPath == FilePath(StoredPath, last.args.fileName.v)

\* A name of one segment that does not begin with a dot.
PlainVisible(chars) ==
  /\ chars # <<>>
  /\ chars[1] # "."
  /\ \A i \in DOMAIN chars : chars[i] # "/"

\* C11: for a live, writable bookmark, saveFile(id, name, bytes) followed
\* by readFile(id, name) returns exactly bytes, also when a file of the
\* name was there before, and listFiles then contains the name once.
C11_SaveThenRead ==
  (last.op = "saveFile" /\ WasLiveWritable)
    => /\ ReadNow(last.args.identifier, last.args.fileName) = Success(last.args.data)
       /\ Occurrences(FilesNow(last.args.identifier), last.args.fileName) = 1

\* C11 as the code has it: the saveFile returns true when the target can
\* be opened for writing; after a saveFile that returned true readFile
\* returns exactly the bytes; listFiles holds the name once when it is a
\* plain name that does not begin with a dot, and not at all otherwise.
C11_SavedThenRead ==
  /\ (last.op = "saveFile" /\ WasLiveWritable
        /\ CanOpenForWrite(last.before.tree, TargetPath))
       => last.resp = Success(FlBool(TRUE))
  /\ (last.op = "saveFile" /\ WasLiveWritable /\ last.resp = Success(FlBool(TRUE)))
       => /\ ReadNow(last.args.identifier, last.args.fileName) = Success(last.args.data)
          /\ Occurrences(FilesNow(last.args.identifier), last.args.fileName)
               = IF PlainVisible(last.args.fileName.v) THEN 1 ELSE 0

\* A saveFile over a file that held other bytes.
C11_Witness ==
  /\ last.op = "saveFile"
  /\ WasLiveWritable
  /\ IsRegularFile(last.before.tree, TargetPath)
  /\ last.before.tree[Resolve(last.before.tree, TargetPath)].data # last.args.data.v
  /\ ReadNow(last.args.identifier, last.args.fileName) = Success(last.args.data)
  /\ Occurrences(FilesNow(last.args.identifier), last.args.fileName) = 1


\* The names a listFiles response holds.
NamesOf(resp) == {resp.value.v[i].v : i \in DOMAIN resp.value.v}

\* The names saved and not deleted since that do not begin with a dot.
SavedVisible == {n \in hist.live : n # <<>> /\ n[1] # "."}

\* C12: for a bookmark on a directory that was empty when the bookmark was
\* made and is changed only by saveFile and deleteFile, listFiles returns
\* exactly the non-hidden names saved and not deleted since their last save.
C12_ListIsWhatWasSaved ==
  IsEntry(GetNow("b"))
    => /\ FilesNow(FlString("b")).kind = "success"
       /\ NamesOf(FilesNow(FlString("b"))) = SavedVisible
       /\ Len(FilesNow(FlString("b")).value.v) = Cardinality(SavedVisible)

\* The part of C12 that holds: the same, as long as every fileName saved
\* or deleted was a plain name, one without `/`.
C12_PlainNames ==
  (IsEntry(GetNow("b")) /\ hist.plain)
    => /\ FilesNow(FlString("b")).kind = "success"
       /\ NamesOf(FilesNow(FlString("b"))) = SavedVisible
       /\ Len(FilesNow(FlString("b")).value.v) = Cardinality(SavedVisible)

\* The scenario of C12 at its last step but one: a and .h saved, a listed.
C12_Scenario ==
  /\ hist.plain
  /\ hist.live = {NameA, NameHidden}
  /\ last.op = "listFiles"
  /\ last.resp = Success(FlList(<<FlString(NameA)>>))


\* The directory the bookmark of the last call resolved to.
ResolvedDir == Resolve(last.before.tree, StoredPath)

\* C13: whatever the bookmarked directory holds, listFiles returns only
\* names of regular files directly inside it: none that begins with `.`,
\* none of a subdirectory, and every non-hidden regular file, once.
C13_ListsVisibleRegularFiles ==
  (last.op = "listFiles" /\ WasLive)
    => /\ last.resp.kind = "success"
       /\ \A name \in NamesOf(last.resp) :
            /\ name[1] # "."
            /\ Append(ResolvedDir, name) \in DOMAIN last.before.tree
            /\ last.before.tree[Append(ResolvedDir, name)].kind = "file"
       /\ \A e \in Entries(last.before.tree, ResolvedDir) :
            (last.before.tree[e].kind = "file" /\ e[Len(e)][1] # ".")
              => e[Len(e)] \in NamesOf(last.resp)
       /\ Len(last.resp.value.v) = Cardinality(NamesOf(last.resp))

\* A listing of a directory that holds a regular file, a hidden file and a
\* subdirectory.
C13_Witness ==
  /\ last.op = "listFiles"
  /\ WasLive
  /\ last.before.tree[Append(ResolvedDir, NameA)].kind = "file"
  /\ last.before.tree[Append(ResolvedDir, NameHidden)].kind = "file"
  /\ last.before.tree[Append(ResolvedDir, NameSub)].kind = "dir"
  /\ last.resp = Success(FlList(<<FlString(NameA)>>))


\* The last call found, wrote or removed the file its path names.
TouchedTarget ==
  \/ last.op \in {"saveFile", "deleteFile", "fileExists"}
       /\ last.resp = Success(FlBool(TRUE))
  \/ last.op = "readFile" /\ last.resp.kind = "success"
       /\ last.resp.value.type = "FL_VALUE_TYPE_UINT8_LIST"

\* The last call kept to the files directly inside the resolved directory.
KeptInside ==
  /\ \A n \in DOMAIN tree :
       tree[n] # last.before.tree[n] => Parent(n) = ResolvedDir
  /\ TouchedTarget => Parent(Resolve(last.before.tree, TargetPath)) = ResolvedDir

\* C14: every file that saveFile, readFile, deleteFile and fileExists
\* touch lies directly inside the resolved bookmark directory, for every
\* fileName they accept, those with `/` or `..` segments included.
C14_NeverOutside ==
  (last.op \in {"saveFile", "readFile", "deleteFile", "fileExists"} /\ WasLive)
    => KeptInside

\* The part of C14 that holds: so it is for a fileName of one segment.
C14_PlainNamesInside ==
  (last.op \in {"saveFile", "readFile", "deleteFile", "fileExists"} /\ WasLive
     /\ IsPlain(last.args.fileName.v))
    => KeptInside


\* The responses a fileExists and a deleteFile issued now with the
\* arguments of the last call receive.
ExistsNow == file_exists(store, tree, last.args).resp
DeleteAgain == delete_file(store, tree, last.args, FileIoOk).resp

\* The outcome of deleteFile, in the order of C15.
DeleteOutcome ==
  IF ~WasLive
  THEN last.resp = BookmarkNotFound /\ tree = last.before.tree
  ELSE IF ~Writable(last.before.tree, StoredPath)
  THEN last.resp = Error("PERMISSION_DENIED") /\ tree = last.before.tree
  ELSE IF ~IsRegularFile(last.before.tree, TargetPath)
  THEN last.resp = Success(FlBool(FALSE)) /\ tree = last.before.tree
  ELSE /\ last.resp = Success(FlBool(TRUE))
       /\ tree = [last.before.tree EXCEPT ![Resolve(last.before.tree, TargetPath)] = None]
       /\ ExistsNow = Success(FlBool(FALSE))
       /\ DeleteAgain = Success(FlBool(FALSE))

\* C15: deleteFile answers BookmarkNotFound when the bookmark does not
\* resolve; else PermissionDenied when the directory is not writable, the
\* target being there or not; else false, deleting nothing, when the
\* target is absent or not a regular file; else it deletes the file and
\* returns true, after which fileExists is false and a repeated deleteFile
\* returns false. The registry is left alone.
C15_DeleteOrder ==
  last.op = "deleteFile" => DeleteOutcome /\ store = last.before.store

\* The part of C15 that holds: the same, when the stat of the target does
\* not fail.
C15_DeleteOrderWhenStatWorks ==
  (last.op = "deleteFile" /\ (WasLive => ~StatFails(TargetPath)))
    => DeleteOutcome /\ store = last.before.store


\* The last call was createBookmark with an empty identifier or path.
CreateWithEmptyString ==
  /\ last.op = "createBookmark"
  /\ last.args.identifier = FlString("") \/ last.args.path = FlString(<<>>)

\* C16: createBookmark fails with InvalidArgument, and stores nothing,
\* when the identifier is the empty string or the path is the empty string.
C16_EmptyIsInvalid ==
  CreateWithEmptyString
    => last.resp = Error("INVALID_ARGUMENT") /\ store = last.before.store

\* What the code does with them: the empty path is no directory, and the
\* empty identifier is an identifier like any other.
C16_EmptyAsTheCodeHasIt ==
  CreateWithEmptyString
    => IF last.args.path = FlString(<<>>)
       THEN last.resp = Error("DIRECTORY_NOT_FOUND") /\ store = last.before.store
       ELSE IF WasPresent
       THEN last.resp = Error("BOOKMARK_ALREADY_EXISTS") /\ store = last.before.store
       ELSE /\ last.resp = Success(FlString(""))
            /\ IsEntry(GetNow(""))
            /\ Member(GetNow(""), "identifier") = FlString("")


\* The entries of the registry the last call found and of the one it left.
EntriesBefore == Bookmarks(RegistryBefore).v
EntriesNow == Bookmarks(RegistryNow).v

\* The last call was an update of the entry called i.
UpdateOf(i) ==
  last.op = "updateBookmarkMetadata" /\ last.args.identifier = FlString(i)

OpenFailed == last.fio = "open_fails" \/ ~CanOpenForWrite(last.before.tree, TargetPath)
WriteFailed == last.fio = "write_fails"

\* The file the last saveFile named holds exactly the bytes it was given.
HoldsTheBytes ==
  /\ IsRegularFile(tree, TargetPath)
  /\ tree[Resolve(tree, TargetPath)].data = last.args.data.v

\* C18: saveFile fails with BookmarkNotFound when the bookmark does not
\* resolve, with PermissionDenied when the resolved directory is not
\* writable, with WriteError when the directory is writable but the open
\* or the write of the target fails; it returns true only if the file then
\* holds exactly the bytes.
C18_SaveFileErrors ==
  last.op = "saveFile"
    => /\ IF ~WasLive
          THEN last.resp = BookmarkNotFound
          ELSE IF ~Writable(last.before.tree, StoredPath)
          THEN last.resp = Error("PERMISSION_DENIED")
          ELSE IF OpenFailed \/ WriteFailed
          THEN last.resp = Error("WRITE_ERROR")
          ELSE last.resp = Success(FlBool(TRUE))
       /\ last.resp = Success(FlBool(TRUE)) => HoldsTheBytes

\* What the code does: BOOKMARK_NOT_FOUND and PERMISSION_DENIED as
\* claimed, PERMISSION_DENIED again when the open fails, and true after
\* the open, the file holding the bytes unless the write failed.
C18_AsTheCodeHasIt ==
  last.op = "saveFile"
    => IF ~WasLive
       THEN last.resp = BookmarkNotFound /\ tree = last.before.tree
       ELSE IF ~Writable(last.before.tree, StoredPath) \/ OpenFailed
       THEN last.resp = Error("PERMISSION_DENIED") /\ tree = last.before.tree
       ELSE /\ last.resp = Success(FlBool(TRUE))
            /\ HoldsTheBytes = ~WriteFailed


\* What C19 has fileExists and hasWritePermission answer.
ProbeAnswer ==
  IF last.op = "fileExists"
  THEN Success(FlBool(WasLive /\ IsRegularFile(last.before.tree, TargetPath)))
  ELSE Success(FlBool(WasLive /\ Writable(last.before.tree, StoredPath)))

\* C19: fileExists and hasWritePermission never answer with an error when
\* the identifier (and the fileName) is a string: false when the bookmark
\* is absent or its directory is gone; otherwise fileExists is true
\* exactly when the target is an existing regular file, hasWritePermission
\* exactly when the resolved directory is writable at the time of the call.
C19_ProbesNeverFail ==
  last.op \in {"fileExists", "hasWritePermission"}
    => last.resp = ProbeAnswer /\ tree = last.before.tree /\ store = last.before.store

\* The part of C19 that holds: hasWritePermission always, fileExists when
\* the stat of the target does not fail.
C19_ProbesWhenStatWorks ==
  (\/ last.op = "hasWritePermission"
   \/ last.op = "fileExists" /\ (WasLive => ~StatFails(TargetPath)))
    => last.resp = ProbeAnswer /\ tree = last.before.tree /\ store = last.before.store


\* C20: listBookmarks returns one entry for every identifier of the
\* persisted document and nothing else, and does not look whether the
\* directories are there: an entry whose directory was removed is still
\* returned, with the path recorded for it.
C20_ListsEveryEntry ==
  last.op = "listBookmarks"
    => /\ last.resp.kind = "success"
       /\ last.resp.value.type = "FL_VALUE_TYPE_LIST"
       /\ Len(last.resp.value.v) = Cardinality(DOMAIN EntriesBefore)
       /\ \A i \in DOMAIN EntriesBefore :
            \E k \in DOMAIN last.resp.value.v :
              /\ last.resp.value.v[k].v[FlString("identifier")] = FlString(i)
              /\ last.resp.value.v[k].v[FlString("path")]
                   = FlString(EntriesBefore[i].v["path"].v)
              /\ last.resp.value.v[k].v[FlString("createdAt")]
                   = FlString(EntriesBefore[i].v["createdAt"].v)
       /\ store = last.before.store

\* A listing of two entries, the directory of one of them removed.
C20_Witness ==
  /\ last.op = "listBookmarks"
  /\ DOMAIN EntriesBefore = {"a", "b"}
  /\ ~IsDirectory(last.before.tree, EntriesBefore["a"].v["path"].v)
  /\ IsDirectory(last.before.tree, EntriesBefore["b"].v["path"].v)
  /\ Len(last.resp.value.v) = 2
  /\ last.resp.value.v[1].v[FlString("path")] = FlString(D1)


\* The last operation of the process has saved: save_bookmarks has returned
\* true, or the handler has answered success and nothing was begun since.
HasSaved(p) ==
  \/ procs[p].pc = "return" /\ procs[p].ret
  \/ procs[p].pc = "idle" /\ procs[p].saved # JNull

\* The document that operation handed to save_bookmarks.
SavedBy(p) == IF procs[p].pc = "return" THEN procs[p].data ELSE procs[p].saved

BothSaved == HasSaved(1) /\ HasSaved(2)

\* C21: when two processes each run a registry mutation at once and both
\* report success, bookmarks.json holds, whole, the document of the writer
\* whose rename came last: the change of the other may be lost, but the
\* two documents are never mixed.
C21_LastWriterWins ==
  BothSaved
    => \E p \in {1, 2} :
         /\ procs[p].latest
         /\ ~procs[3 - p].latest
         /\ store.doc = File(Dump(SavedBy(p)))
         /\ load_bookmarks.data = AsSaved(SavedBy(p))

\* Process 1 loaded the registry before process 2 put its entry in place,
\* and renamed after it: both have saved, and the entry of process 2 is lost.
C21_Witness ==
  /\ procs[1].pc = "return" /\ procs[1].ret
  /\ procs[2].pc = "idle" /\ procs[2].saved # JNull
  /\ procs[1].pre = AsSaved(DocWithA)
  /\ procs[1].latest
  /\ contains(Bookmarks(procs[2].saved), "b")
  /\ ~contains(Bookmarks(load_bookmarks.data), "b")
  /\ load_bookmarks.data = AsSaved(procs[1].data)

\* The last call reported that it could not save.
ReportsFailure ==
  IF last.op = "createBookmark"
  THEN last.resp = Error("WRITE_ERROR")
  ELSE last.resp = Success(FlBool(FALSE))

\* The document file and what a load returns are as before the last call.
DocumentAsBefore ==
  /\ store.doc = last.before.store.doc
  /\ RegistryNow = RegistryBefore

\* C22: when the save of a mutating operation fails (the open of the
\* temporary file, the write of its bytes or the rename), createBookmark
\* returns WRITE_ERROR, deleteBookmark and updateBookmarkMetadata return
\* false, and the document is unchanged: the next load returns the registry
\* of before the operation.
C22_FailedSaveReported ==
  (SaveWasCalled /\ last.io.fail # "none")
    => ReportsFailure /\ DocumentAsBefore

\* The part of C22 that holds: the same, for every save that returned false.
C22_WhenSaveReturnsFalse ==
  (SaveWasCalled /\ ~last.save.ret)
    => ReportsFailure /\ DocumentAsBefore

\* The last step was a call of a method, and of one of the three that save.
MethodCalled == last.op \notin {"none", "external"}
IsMutation ==
  last.op \in {"createBookmark", "deleteBookmark", "updateBookmarkMetadata"}

\* The last call answered an error, or false for an identifier not in the
\* registry.
NothingToDo ==
  \/ last.resp.kind = "error"
  \/ last.resp = Success(FlBool(FALSE)) /\ WasAbsent

\* C23: only createBookmark, deleteBookmark and updateBookmarkMetadata write
\* the registry document, and only when they find work to do: the queries,
\* every file operation, the permission methods, and every call that
\* answers an error or false for an absent identifier leave bookmarks.json
\* as it was.
C23_OnlyMutationsWrite ==
  (MethodCalled /\ (~IsMutation \/ NothingToDo))
    => store.doc = last.before.store.doc

\* The last call was a saveFile or deleteFile whose file_path names
\* bookmarks.json itself.
AimedAtDocument ==
  /\ last.op \in {"saveFile", "deleteFile"}
  /\ IsStringArg(last.args.fileName)
  /\ WasPresent
  /\ HasString(Bookmarks(RegistryBefore).v[last.args.identifier.v], "path")
  /\ Resolve(last.before.tree, config_path) = DocNode
  /\ Resolve(last.before.tree, TargetPath) = DocNode

\* The part of C23 that holds: the same, for every call but a saveFile or
\* deleteFile on the path of bookmarks.json.
C23_UnlessAimedAtDocument ==
  (MethodCalled /\ (~IsMutation \/ NothingToDo) /\ ~AimedAtDocument)
    => store.doc = last.before.store.doc

\* load_bookmarks returns the document that is in bookmarks.json.
LoadAccepts == store.dirOk /\ ~DocumentUnusable

\* A value or a typed error, not an exception that leaves the handler.
IsNormal(resp) == resp.kind \in {"success", "error"}

\* Every entry of the registry has its id, path and createdAt as strings.
EveryEntryConvertible ==
  \A i \in DOMAIN Bookmarks(RegistryNow).v : Convertible(Bookmarks(RegistryNow).v[i])

\* C24: for every document load accepts (one that parses and has an object
\* as `bookmarks`, whatever its entries are), listBookmarks, getBookmark
\* and the resolution of a bookmark's path end with a value or a typed
\* error, never with a failure nothing handles.
C24_NoUnhandledFailure ==
  LoadAccepts
    => /\ IsNormal(ListNow)
       /\ \A i \in {"a", "b"} :
            /\ IsNormal(GetNow(i))
            /\ get_bookmarked_path(store, tree, i).threw = ""

\* The part of C24 that holds: the same, for the accepted documents whose
\* entries all have strings as id, path and createdAt.
C24_WhenEntriesAreWhole ==
  (LoadAccepts /\ EveryEntryConvertible)
    => /\ IsNormal(ListNow)
       /\ \A i \in {"a", "b"} :
            /\ IsNormal(GetNow(i))
            /\ get_bookmarked_path(store, tree, i).threw = ""

====
